---- MODULE Spec2Model ----
(***************************************************************************)
(* Model of Moe's query engine (moe/core/query.py): the shell-style        *)
(* tokenizer, the term parser, the expression builder, and query() itself  *)
(* run against a small library of tracks and albums.                       *)
(*                                                                         *)
(* Strings are sequences of one-character strings, so that tokenizing,     *)
(* parsing, case folding and matching are computed character by character. *)
(***************************************************************************)
EXTENDS Integers, Sequences, FiniteSets, TLC

VARIABLES
    tracks,         \* the Track rows of the library (session contents)
    albums,         \* the Album rows of the library (ids)
    store_fault,    \* what the database signals when a query is evaluated, or "none"
    pending,        \* session.new: the Track rows added to the session, not yet flushed
    query_str,      \* query(): argument query_str
    album_query,    \* query(): argument album_query
    pc,             \* position inside query(): "start", "loop", "done" ("idle": no call)
    terms,          \* query(): terms = shlex.split(query_str)
    idx,            \* query(): index of the term the for loop is at
    library_query,  \* query(): the filters accumulated on library_query
    items,          \* query(): the returned list (as a set of ids)
    raised,         \* exception that escaped query(), or "none"
    log,            \* records written to the module logger
    steps,          \* the stage steps performed so far: <<stage, term index>>
    store_evals,    \* how many times the session evaluated a query (.all())
    prev,           \* outcome of the previous invocation on this session
    term,           \* _parse_term(): argument term
    match_dict,     \* _parse_term(): the returned dictionary or the error
    match_sep,      \* a term's separator: ":" for LIKE, "::" for a regular expression
    match_value,    \* a term's value: the LIKE pattern or the regular expression
    match_col,      \* the column value a filter is evaluated on
    calls,          \* the query() invocations that run side by side: one record each
    shared_log,     \* the records those invocations wrote to the module logger
    matched,        \* what ilike() and regexp() gave for that value and column value
    info_items,     \* _fmt_infos(): argument items (a list of item objects)
    out_str,        \* _fmt_infos(): the string built, piece by piece
    info_pc,        \* position of the info plugin: "idle", "call", "returned"
    sess_new,       \* session.new: the items added to the session, not yet written
    sess_dirty,     \* session.dirty: the items of the library changed in the session
    item_title,     \* the title each item object has in memory
    written,        \* the library rows: the title each written item has in the database
    flush_pc,       \* position inside session.flush()
    flushes,        \* how many times session.flush() was called
    events,         \* the hook calls and the writes, in the order they happened
    dry_run,        \* move command: args.dry_run
    move_pc,        \* position inside the move command
    move_todo,      \* the albums the command has still to go through
    album_path,     \* the path attribute of each Album object
    album_row,      \* the path of each album as the library database has it
    track_path,     \* the path attribute of each Track object
    extra_path,     \* the path attribute of each Extra object
    path_before,    \* the path attributes when the command began
    moved,          \* the albums move_item() was called on
    dry_run_str     \* _dry_run(): the lines of the string it builds

infoVars == <<info_items, out_str, info_pc>>

flushVars == <<sess_new, sess_dirty, item_title, written, flush_pc, flushes, events>>

moveVars == <<dry_run, move_pc, move_todo, album_path, album_row, track_path,
              extra_path, path_before, moved, dry_run_str>>

\* the state of the plugins and of the session they work on
pluginVars == <<infoVars, flushVars, moveVars>>

\* the state of query() and of the library
queryVars == <<tracks, albums, store_fault, pending, query_str, album_query, pc, terms,
               idx, library_query, items, raised, log, steps, store_evals, prev, term,
               match_dict, match_sep, match_value, match_col, matched, calls,
               shared_log>>

vars == <<queryVars, pluginVars>>

\* no plugin command is running
NoInfo ==
    /\ info_items = <<>>
    /\ out_str = <<>>
    /\ info_pc = "idle"

\* a session nothing was added to, on an empty library
NoFlush ==
    /\ sess_new = {}
    /\ sess_dirty = {}
    /\ item_title = <<>>
    /\ written = <<>>
    /\ flush_pc = "idle"
    /\ flushes = 0
    /\ events = <<>>

\* no move command is running
NoMove ==
    /\ dry_run = FALSE
    /\ move_pc = "idle"
    /\ move_todo = <<>>
    /\ album_path = <<>>
    /\ album_row = <<>>
    /\ track_path = <<>>
    /\ extra_path = <<>>
    /\ path_before = <<>>
    /\ moved = {}
    /\ dry_run_str = <<>>

NoPlugin == NoInfo /\ NoFlush /\ NoMove

concVars == <<calls, shared_log>>

matchVars == <<match_sep, match_value, match_col, matched>>

----------------------------------------------------------------------------
(* Characters *)

DQ == "\""
SQ == "'"
BS == "\\"
NL == "\n"
SP == " "

LowerLetters == <<"a","b","c","d","e","f","g","h","i","j","k","l","m",
                  "n","o","p","q","r","s","t","u","v","w","x","y","z">>
UpperLetters == <<"A","B","C","D","E","F","G","H","I","J","K","L","M",
                  "N","O","P","Q","R","S","T","U","V","W","X","Y","Z">>

\* str.lower() / SQL lower() on one character
LowerChar(c) ==
    IF \E i \in DOMAIN UpperLetters : UpperLetters[i] = c
    THEN LowerLetters[CHOOSE i \in DOMAIN UpperLetters : UpperLetters[i] = c]
    ELSE c

UpperChar(c) ==
    IF \E i \in DOMAIN LowerLetters : LowerLetters[i] = c
    THEN UpperLetters[CHOOSE i \in DOMAIN LowerLetters : LowerLetters[i] = c]
    ELSE c

Lower(s) == [i \in DOMAIN s |-> LowerChar(s[i])]
Upper(s) == [i \in DOMAIN s |-> UpperChar(s[i])]

\* whitespace as seen by shlex and by the regex class \s
IsSpace(c) == c \in {SP, NL, "\t", "\r"}

----------------------------------------------------------------------------
(* Error messages of query.py, under the names the specification gives them *)

EmptyQuery == "No query given."
MalformedTerm == "Invalid query term"
UnknownField == "Invalid Track field"
InvalidRegex == "Invalid regular expression"
InvalidQueryType == "Invalid query type"
NoError == "none"

QueryErrors == {EmptyQuery, MalformedTerm, UnknownField, InvalidRegex}

----------------------------------------------------------------------------
(* shlex.split(query_str): POSIX mode, whitespace_split, no comment chars.  *)
(* The lexer reads the string character by character; its state is " "     *)
(* (between tokens), "a" (in a word), a quote character, or the escape     *)
(* character.  The result is the token list, or the ValueError shlex       *)
(* raises at the end of input inside a quotation or after an escape.       *)

\* the lexer before the first character
shlex_start == [state |-> SP, escapedstate |-> SP, token |-> <<>>, quoted |-> FALSE,
                out |-> <<>>]

\* the tokens read so far, with the token being read if there is one
shlex_emit(lex) ==
    IF lex.token # <<>> \/ lex.quoted THEN Append(lex.out, lex.token) ELSE lex.out

\* shlex.read_token: what one character does to the lexer
shlex_read(lex, nextchar) ==
    IF lex.state \in {SP, "a"}
    THEN IF IsSpace(nextchar)
         THEN [shlex_start EXCEPT !.out = shlex_emit(lex)]
         ELSE IF nextchar = BS
         THEN [lex EXCEPT !.state = BS, !.escapedstate = "a"]
         ELSE IF nextchar \in {DQ, SQ}
         THEN [lex EXCEPT !.state = nextchar]
         ELSE [lex EXCEPT !.state = "a", !.token = Append(lex.token, nextchar)]
    ELSE IF lex.state \in {DQ, SQ}
    THEN IF nextchar = lex.state
         THEN [lex EXCEPT !.state = "a", !.quoted = TRUE]
         ELSE IF nextchar = BS /\ lex.state = DQ
         THEN [lex EXCEPT !.state = BS, !.escapedstate = DQ, !.quoted = TRUE]
         ELSE [lex EXCEPT !.token = Append(lex.token, nextchar), !.quoted = TRUE]
    ELSE \* the state is the escape character
         LET kept == IF lex.escapedstate \in {DQ, SQ} /\ nextchar # BS
                        /\ nextchar # lex.escapedstate
                     THEN Append(lex.token, BS) ELSE lex.token
         IN  [lex EXCEPT !.state = lex.escapedstate, !.token = Append(kept, nextchar)]

\* the lexer after the characters s[lo..hi], read in order (no state is
\* empty: the test makes the first half be read before the second is begun)
RECURSIVE shlex_run(_, _, _, _)
shlex_run(lex, s, lo, hi) ==
    IF lo > hi THEN lex
    ELSE IF lo = hi THEN shlex_read(lex, s[lo])
    ELSE LET mid == (lo + hi) \div 2
             half == shlex_run(lex, s, lo, mid)
         IN  IF half.state = "" THEN half ELSE shlex_run(half, s, mid + 1, hi)

\* shlex.split: all the tokens, or the error at the end of the input
shlex_split(s) ==
    LET lex == shlex_run(shlex_start, s, 1, Len(s))
    IN  IF lex.state \in {DQ, SQ}
        THEN [error |-> "No closing quotation", tokens |-> <<>>]
        ELSE IF lex.state = BS
        THEN [error |-> "No escaped character", tokens |-> <<>>]
        ELSE [error |-> NoError, tokens |-> shlex_emit(lex)]

----------------------------------------------------------------------------
(* _parse_term(term)                                                        *)

F_track_num == <<"t", "r", "a", "c", "k", "_", "n", "u", "m">>

NoMatch == [error |-> MalformedTerm, field |-> <<>>, separator |-> "", value |-> <<>>]

\* The end of the line that starts at position i: "." does not match a line
\* break, so the greedy ".*" of the value group stops before the first one.
RECURSIVE LineEnd(_, _)
LineEnd(s, i) ==
    IF i > Len(s) \/ s[i] = NL THEN i - 1 ELSE LineEnd(s, i + 1)

\* Whether the separator and value groups match right after a field of
\* length k, and with which separator: "::?" is greedy, so "::" is tried
\* first and ":" only when "::" followed by \S fails.
SeparatorAt(s, k) ==
    IF k + 3 <= Len(s) /\ s[k + 1] = ":" /\ s[k + 2] = ":" /\ ~IsSpace(s[k + 3])
    THEN "::"
    ELSE IF k + 2 <= Len(s) /\ s[k + 1] = ":" /\ ~IsSpace(s[k + 2])
    THEN ":"
    ELSE ""

\* The field lengths at which the whole expression matches: \S+? takes one
\* or more non-whitespace characters, and being lazy the shortest is used.
FieldLengths(s) ==
    {k \in 1..Len(s) : /\ \A j \in 1..k : ~IsSpace(s[j])
                       /\ SeparatorAt(s, k) # ""}

Min(S) == CHOOSE x \in S : \A y \in S : x <= y

parse_term(t) ==
    IF t = <<"*">>
    THEN [error |-> NoError, field |-> F_track_num, separator |-> ":",
          value |-> <<"%">>]
    ELSE LET lengths == FieldLengths(t)
             k == Min(lengths)
             sep == SeparatorAt(t, k)
             from == k + (IF sep = "::" THEN 2 ELSE 1) + 1
         IN  IF lengths = {}
             THEN NoMatch
             ELSE [error |-> NoError,
                   field |-> Lower(SubSeq(t, 1, k)),
                   separator |-> sep,
                   value |-> SubSeq(t, from, LineEnd(t, from))]

----------------------------------------------------------------------------
(* The library: Track rows joined to their Album row.  A column value is a   *)
(* string, or Null for an SQL NULL.                                         *)

Null == <<"NULL">>

F_artist == <<"a", "r", "t", "i", "s", "t">>
F_title == <<"t", "i", "t", "l", "e">>

V_WuTangClan == <<"W", "u", "-", "T", "a", "n", "g", " ", "C", "l", "a", "n">>
V_Adventure == <<"A", "d", "v", "e", "n", "t", "u", "r", "e">>
V_Bravo == <<"B", "r", "a", "v", "o">>
V_RZA == <<"R", "Z", "A">>
V_100pct == <<"1", "0", "0", "%">>

Track1 == [id |-> 1, album_id |-> 1, artist |-> V_WuTangClan, title |-> V_Adventure,
           track_num |-> <<"1">>]
Track2 == [id |-> 2, album_id |-> 1, artist |-> V_WuTangClan, title |-> V_Bravo,
           track_num |-> <<"2">>]
Track3 == [id |-> 3, album_id |-> 2, artist |-> V_RZA, title |-> V_100pct,
           track_num |-> Null]

TrackPool == {Track1, Track2, Track3}

\* an album without tracks is in every library of the model
EmptyAlbum == 3

\* Track.get_attr(field): the queryable columns; anything else is a ValueError
TrackFields == {F_artist, F_title, F_track_num}

\* the queryable fields an Album row does not have itself
TrackOnlyFields == {F_track_num}

get_attr(field) ==
    IF field \in TrackFields THEN NoError ELSE UnknownField

\* the value of a resolved column on a joined (track, album) row
Column(t, field) ==
    IF field = F_artist THEN t.artist
    ELSE IF field = F_title THEN t.title
    ELSE t.track_num

----------------------------------------------------------------------------
(* attr.ilike(value, escape="/"): lower(column) LIKE lower(value) ESCAPE '/' *)
(* as SQLite evaluates it: "%" any run of characters, "_" one character,    *)
(* the escape character makes the next pattern character literal and is    *)
(* no match when it ends the pattern; the whole column value is matched.   *)

RECURSIVE LikeMatch(_, _, _, _)
LikeMatch(p, i, s, j) ==
    IF i > Len(p) THEN j > Len(s)
    ELSE IF p[i] = "%"
         THEN LikeMatch(p, i + 1, s, j) \/ (j <= Len(s) /\ LikeMatch(p, i, s, j + 1))
    ELSE IF p[i] = "_"
         THEN j <= Len(s) /\ LikeMatch(p, i + 1, s, j + 1)
    ELSE IF p[i] = "/"
         THEN /\ i + 1 <= Len(p)
              /\ j <= Len(s)
              /\ s[j] = p[i + 1]
              /\ LikeMatch(p, i + 2, s, j + 1)
    ELSE /\ j <= Len(s)
         /\ s[j] = p[i]
         /\ LikeMatch(p, i + 1, s, j + 1)

\* ilike with the case folding left out (LIKE on the raw strings)
ilike_case_sensitive(col_value, value) ==
    /\ col_value # Null
    /\ LikeMatch(value, 1, col_value, 1)

ilike(col_value, value) ==
    /\ col_value # Null
    /\ LikeMatch(Lower(value), 1, Lower(col_value), 1)

----------------------------------------------------------------------------
(* Regular expressions, for the characters of the model: "^" and "$" are   *)
(* anchors, "." any character but a line break, "*" repeats the item       *)
(* before it, "(" opens a group; every other character is a literal.       *)

\* re.compile(value) succeeds: the model has no ")" so a group is never
\* closed, and "*" needs a repeatable item before it.
re_compile(p) ==
    /\ \A i \in DOMAIN p : p[i] # "("
    /\ \A i \in DOMAIN p : p[i] = "*" => (i > 1 /\ p[i - 1] \notin {"*", "^", "$"})

AtomMatch(a, c) ==
    IF a = "." THEN c # NL ELSE LowerChar(a) = LowerChar(c)

RECURSIVE ReMatchAt(_, _, _, _)
ReMatchAt(p, i, s, j) ==
    IF i > Len(p) THEN TRUE
    ELSE IF p[i] = "^" THEN j = 1 /\ ReMatchAt(p, i + 1, s, j)
    ELSE IF p[i] = "$"
         THEN /\ j = Len(s) + 1 \/ (j = Len(s) /\ s[j] = NL)
              /\ ReMatchAt(p, i + 1, s, j)
    ELSE IF i + 1 <= Len(p) /\ p[i + 1] = "*"
         THEN \/ ReMatchAt(p, i + 2, s, j)
              \/ (j <= Len(s) /\ AtomMatch(p[i], s[j]) /\ ReMatchAt(p, i, s, j + 1))
    ELSE /\ j <= Len(s)
         /\ AtomMatch(p[i], s[j])
         /\ ReMatchAt(p, i + 1, s, j + 1)

NoneStr == <<"N", "o", "n", "e">>

\* str(col_value)
Str(col_value) == IF col_value = Null THEN NoneStr ELSE col_value

\* _regexp with re.match in place of re.search: the pattern has to match at
\* the beginning of the string
regexp_match(pattern, col_value) ==
    ReMatchAt(pattern, 1, Str(col_value), 1)

\* config.py _regexp(pattern, col_value):
\* re.search(pattern, str(col_value), re.IGNORECASE) is not None
regexp(pattern, col_value) ==
    LET s == Str(col_value)
    IN  \E j \in 1..(Len(s) + 1) : ReMatchAt(pattern, 1, s, j)

----------------------------------------------------------------------------
(* _create_expression(term): the filter for one parsed term, or the        *)
(* ValueError it raises.  The attribute is resolved first, the regular     *)
(* expression is compiled after.                                           *)

\* _create_expression without the re.compile() check
create_expression_no_compile(t) ==
    LET field == Lower(t.field)
        attr == get_attr(field)
    IN  [error |-> IF attr # NoError THEN attr
                   ELSE IF t.separator \in {":", "::"} THEN NoError
                   ELSE InvalidQueryType,
         field |-> field, separator |-> t.separator, value |-> t.value]

\* _create_expression that goes on when the attribute lookup fails
create_expression_no_resolve(t) ==
    LET field == Lower(t.field)
    IN  [error |-> IF t.separator = ":" THEN NoError
                   ELSE IF t.separator = "::"
                        THEN IF re_compile(t.value) THEN NoError ELSE InvalidRegex
                   ELSE InvalidQueryType,
         field |-> field, separator |-> t.separator, value |-> t.value]

\* _create_expression that compiles the regular expression before it
\* resolves the attribute
create_expression_compile_first(t) ==
    LET field == Lower(t.field)
        attr == get_attr(field)
    IN  [error |-> IF t.separator = "::" /\ ~re_compile(t.value) THEN InvalidRegex
                   ELSE IF attr # NoError THEN attr
                   ELSE IF t.separator \in {":", "::"} THEN NoError
                   ELSE InvalidQueryType,
         field |-> field, separator |-> t.separator, value |-> t.value]

\* _create_expression that resolves the field in the registry of the queried
\* kind: an album query does not know the track-only fields
create_expression_kind_scoped(t) ==
    LET field == Lower(t.field)
        attr == IF album_query /\ field \in TrackOnlyFields THEN UnknownField
                ELSE get_attr(field)
    IN  [error |-> IF attr # NoError THEN attr
                   ELSE IF t.separator = ":" THEN NoError
                   ELSE IF t.separator = "::"
                        THEN IF re_compile(t.value) THEN NoError ELSE InvalidRegex
                   ELSE InvalidQueryType,
         field |-> field, separator |-> t.separator, value |-> t.value]

create_expression(t) ==
    LET field == Lower(t.field)
        attr == get_attr(field)
        expr(e) == [error |-> e, field |-> field, separator |-> t.separator,
                    value |-> t.value]
    IN  IF attr # NoError THEN expr(attr)
        ELSE IF t.separator = ":" THEN expr(NoError)
        ELSE IF t.separator = "::"
             THEN IF re_compile(t.value) THEN expr(NoError) ELSE expr(InvalidRegex)
        ELSE expr(InvalidQueryType)

\* the stages _create_expression(_parse_term(term)) goes through for one term
TermStages(t) ==
    LET parsed == parse_term(t)
    IN  IF parsed.error # NoError THEN {"parse"}
        ELSE IF get_attr(Lower(parsed.field)) # NoError THEN {"parse", "resolve"}
        ELSE {"parse", "resolve", "compile"}

\* whether a filter holds on a joined row
Holds(expr, t) ==
    IF expr.separator = ":"
    THEN ilike(Column(t, expr.field), expr.value)
    ELSE regexp(expr.value, Column(t, expr.field))

\* filter() that starts from a fresh query instead of the filtered one
filter_replacing(lq, expr) == <<expr>>

\* library_query.filter(expression)
filter(lq, expr) == Append(lq, expr)

\* library_query.all(): session.query(Track).join(Album) gives the tracks of
\* the rows that pass every filter, session.query(Album).join(Track) the
\* albums of those rows.
all(lq, rows, is_album_query) ==
    LET passing == {t \in rows : \A n \in DOMAIN lq : Holds(lq[n], t)}
    IN  IF is_album_query THEN {t.album_id : t \in passing}
        ELSE {t.id : t \in passing}

----------------------------------------------------------------------------
(* Inputs *)

MaxTerms == 2
MaxSessionTerms == 1
MaxTokLen == 5

W_artist_wutang == <<"a", "r", "t", "i", "s", "t", ":", "w", "u", "-", "t", "a", "n", "g">>
W_title_a == <<"t", "i", "t", "l", "e", ":", "a", "%">>
W_quoted == <<DQ, "a", "r", "t", "i", "s", "t", ":", "w", "u", "-", "t", "a", "n", "g",
              " ", "c", "l", "a", "n", DQ>>
W_bogus == <<"b", "o", "g", "u", "s", ":", "1">>
W_badregex == <<"t", "i", "t", "l", "e", ":", ":", "(">>
W_badtoken == <<"b", "a", "d", "t", "o", "k", "e", "n">>
W_star == <<"*">>
W_regex == <<"T", "I", "T", "L", "E", ":", ":", "^", "b">>
W_bogus_badregex == <<"b", "o", "g", "u", "s", ":", ":", "(">>
W_unterminated == <<DQ, "t", "i", "t", "l", "e", ":", "a">>
W_track_num_1 == F_track_num \o <<":", "1">>
W_backslash == <<"t", "i", "t", "l", "e", ":", "a", BS, "%">>

\* the words query strings are made of; the empty word gives the empty and
\* the whitespace-only query strings
Words == {<<>>, W_artist_wutang, W_title_a, W_quoted, W_bogus, W_badregex,
          W_badtoken, W_star, W_regex, W_bogus_badregex, W_unterminated,
          W_track_num_1, W_backslash}

RECURSIVE JoinWords(_)
JoinWords(ws) ==
    IF ws = <<>> THEN <<>>
    ELSE IF Len(ws) = 1 THEN ws[1]
    ELSE ws[1] \o <<SP>> \o JoinWords(Tail(ws))

QueryStrings(n) == {JoinWords(ws) : ws \in UNION {[1..k -> Words] : k \in 0..n}}

ParseAlphabet == {"a", "B", ":", SP, NL, "*"}

Tokens == UNION {[1..k -> ParseAlphabet] : k \in 0..MaxTokLen}

----------------------------------------------------------------------------
(* query(query_str, session, album_query)                                  *)

NotEvaluated == [evaluated |-> FALSE, result |-> FALSE]

\* no filter is being evaluated on its own
NoMatching ==
    /\ match_sep = ""
    /\ match_value = <<>>
    /\ match_col = <<>>
    /\ matched = NotEvaluated
    /\ calls = <<>>
    /\ shared_log = <<>>

\* same: the call that followed was given the same query string and kind
NoPrev == [valid |-> FALSE, items |-> {}, raised |-> NoError, error |-> NoError,
           same |-> FALSE]
NotParsed == [error |-> "not parsed", field |-> <<>>, separator |-> "", value |-> <<>>]

\* the message of the error record query() logged, if any
Error ==
    IF \E n \in DOMAIN log : log[n].level = "error"
    THEN log[CHOOSE n \in DOMAIN log : log[n].level = "error"].msg
    ELSE NoError

Library(ts) ==
    /\ store_fault = NoError
    /\ pending = {}
    /\ tracks = ts
    /\ albums = {t.album_id : t \in ts} \cup {EmptyAlbum}

Call(q, a) ==
    /\ query_str = q
    /\ album_query = a
    /\ pc = "start"
    /\ terms = <<>>
    /\ idx = 1
    /\ library_query = <<>>
    /\ items = {}
    /\ raised = NoError
    /\ log = <<>>
    /\ steps = {}
    /\ store_evals = 0

Init ==
    /\ \E ts \in SUBSET TrackPool : Library(ts)
    /\ \E q \in QueryStrings(MaxTerms), a \in BOOLEAN : Call(q, a)
    /\ prev = NoPrev
    /\ term = <<>>
    /\ match_dict = NotParsed
    /\ NoMatching
    /\ NoPlugin

\* query() without the "if not terms" early return
QuerySplit_no_empty_check ==
    /\ pc = "start"
    /\ LET split == shlex_split(query_str)
       IN  IF split.error # NoError
           THEN /\ raised' = split.error
                /\ pc' = "done"
                /\ UNCHANGED <<terms, log, items>>
           ELSE /\ terms' = split.tokens
                /\ pc' = "loop"
                /\ UNCHANGED <<log, items, raised>>
    /\ idx' = 1
    /\ library_query' = <<>>
    /\ UNCHANGED <<tracks, albums, query_str, album_query, steps, store_evals, prev,
                   term, match_dict>>
    /\ UNCHANGED matchVars
    /\ UNCHANGED pending
    /\ UNCHANGED concVars
    /\ UNCHANGED store_fault
    /\ UNCHANGED pluginVars

\* lines 92-101: split the query string; an empty list is logged and [] is
\* returned; a ValueError of shlex is not caught.
QuerySplit ==
    /\ pc = "start"
    /\ LET split == shlex_split(query_str)
       IN  IF split.error # NoError
           THEN /\ raised' = split.error
                /\ pc' = "done"
                /\ UNCHANGED <<terms, log, items>>
           ELSE IF split.tokens = <<>>
           THEN /\ log' = Append(log, [level |-> "error", msg |-> EmptyQuery])
                /\ items' = {}
                /\ pc' = "done"
                /\ UNCHANGED <<terms, raised>>
           ELSE /\ terms' = split.tokens
                /\ pc' = "loop"
                /\ UNCHANGED <<log, items, raised>>
    /\ idx' = 1
    /\ library_query' = <<>>
    /\ UNCHANGED <<tracks, albums, query_str, album_query, steps, store_evals, prev,
                   term, match_dict>>
    /\ UNCHANGED matchVars
    /\ UNCHANGED pending
    /\ UNCHANGED concVars
    /\ UNCHANGED store_fault
    /\ UNCHANGED pluginVars

\* what one pass of the for loop does with terms[idx]: the filter to add, or
\* the ValueError caught
LoopBody(t) ==
    LET parsed == parse_term(t)
    IN  IF parsed.error # NoError THEN parsed ELSE create_expression(parsed)

\* the for loop with the "return []" of the except clause left out: the
\* error is logged and the loop goes on with the next term
QueryTerm_no_return ==
    /\ pc = "loop"
    /\ idx <= Len(terms)
    /\ LET expr == LoopBody(terms[idx])
       IN  IF expr.error # NoError
           THEN /\ log' = Append(log, [level |-> "error", msg |-> expr.error])
                /\ UNCHANGED library_query
           ELSE /\ library_query' = Append(library_query, expr)
                /\ UNCHANGED log
    /\ idx' = idx + 1
    /\ steps' = steps \cup {<<st, idx>> : st \in TermStages(terms[idx])}
    /\ UNCHANGED <<tracks, albums, query_str, album_query, pc, terms, items, raised,
                   store_evals, prev, term, match_dict>>
    /\ UNCHANGED matchVars
    /\ UNCHANGED pending
    /\ UNCHANGED concVars
    /\ UNCHANGED store_fault
    /\ UNCHANGED pluginVars

\* lines 103-108: one pass of the for loop
QueryTerm ==
    /\ pc = "loop"
    /\ idx <= Len(terms)
    /\ LET expr == LoopBody(terms[idx])
       IN  IF expr.error # NoError
           THEN /\ log' = Append(log, [level |-> "error", msg |-> expr.error])
                /\ items' = {}
                /\ pc' = "done"
                /\ UNCHANGED <<library_query, idx>>
           ELSE /\ library_query' = filter(library_query, expr)
                /\ idx' = idx + 1
                /\ UNCHANGED <<log, items, pc>>
    /\ steps' = steps \cup {<<st, idx>> : st \in TermStages(terms[idx])}
    /\ UNCHANGED <<tracks, albums, query_str, album_query, terms, raised, store_evals,
                   prev, term, match_dict>>
    /\ UNCHANGED matchVars
    /\ UNCHANGED pending
    /\ UNCHANGED concVars
    /\ UNCHANGED store_fault
    /\ UNCHANGED pluginVars

\* the session flushes before it evaluates a query (autoflush, the default of
\* sessionmaker()): the rows added to the session are written to the library
autoflush ==
    /\ tracks' = tracks \cup pending
    /\ albums' = albums \cup {t.album_id : t \in pending}
    /\ pending' = {}

\* query() that leaves out the items the call before it returned
QueryAll_skips_seen ==
    /\ pc = "loop"
    /\ idx > Len(terms)
    /\ LET found == all(library_query, tracks \cup pending, album_query) \ prev.items
       IN  /\ items' = found
           /\ log' = IF found = {}
                     THEN Append(log, [level |-> "warning", msg |-> "No items found"])
                     ELSE log
    /\ autoflush
    /\ store_evals' = store_evals + 1
    /\ pc' = "done"
    /\ UNCHANGED <<query_str, album_query, terms, idx, library_query,
                   raised, steps, prev, term, match_dict>>
    /\ UNCHANGED matchVars
    /\ UNCHANGED concVars
    /\ UNCHANGED store_fault
    /\ UNCHANGED pluginVars

\* query() with .all() inside a try that catches every exception: what the
\* database signals is logged and [] is returned
QueryAll_catches_all ==
    /\ pc = "loop"
    /\ idx > Len(terms)
    /\ IF store_fault # NoError
       THEN /\ log' = Append(log, [level |-> "error", msg |-> store_fault])
            /\ items' = {}
            /\ UNCHANGED <<tracks, albums, pending>>
       ELSE /\ LET found == all(library_query, tracks \cup pending, album_query)
               IN  /\ items' = found
                   /\ log' = IF found = {}
                             THEN Append(log, [level |-> "warning",
                                               msg |-> "No items found"])
                             ELSE log
            /\ autoflush
    /\ store_evals' = store_evals + 1
    /\ pc' = "done"
    /\ UNCHANGED <<query_str, album_query, terms, idx, library_query,
                   raised, steps, prev, term, match_dict>>
    /\ UNCHANGED matchVars
    /\ UNCHANGED concVars
    /\ UNCHANGED store_fault
    /\ UNCHANGED pluginVars

\* lines 110-115: the session flushes what was added to it and evaluates the
\* query; an empty list is logged as a warning and returned
QueryAll ==
    /\ pc = "loop"
    /\ idx > Len(terms)
    /\ IF store_fault # NoError
       THEN /\ raised' = store_fault
            /\ UNCHANGED <<items, log, tracks, albums, pending>>
       ELSE /\ LET found == all(library_query, tracks \cup pending, album_query)
               IN  /\ items' = found
                   /\ log' = IF found = {}
                             THEN Append(log, [level |-> "warning",
                                               msg |-> "No items found"])
                             ELSE log
            /\ autoflush
            /\ UNCHANGED raised
    /\ store_evals' = store_evals + 1
    /\ pc' = "done"
    /\ UNCHANGED <<query_str, album_query, terms, idx, library_query,
                   steps, prev, term, match_dict>>
    /\ UNCHANGED matchVars
    /\ UNCHANGED concVars
    /\ UNCHANGED store_fault
    /\ UNCHANGED pluginVars

Next == QuerySplit \/ QueryTerm \/ QueryAll

Spec == Init /\ [][Next]_vars

----------------------------------------------------------------------------
(* A session on which query() is called again and again *)

InitSession ==
    /\ \E ts \in SUBSET TrackPool : Library(ts)
    /\ \E q \in QueryStrings(MaxSessionTerms), a \in BOOLEAN : Call(q, a)
    /\ prev = NoPrev
    /\ term = <<>>
    /\ match_dict = NotParsed
    /\ NoMatching
    /\ NoPlugin

\* the caller keeps what query() gave it and calls query() again
NewCall ==
    /\ pc = "done"
    /\ \E q \in QueryStrings(MaxSessionTerms), a \in BOOLEAN :
          /\ query_str' = q
          /\ album_query' = a
          /\ prev' = [valid |-> TRUE, items |-> items, raised |-> raised,
                      error |-> Error,
                      same |-> (q = query_str /\ a = album_query)]
    /\ pc' = "start"
    /\ terms' = <<>>
    /\ idx' = 1
    /\ library_query' = <<>>
    /\ items' = {}
    /\ raised' = NoError
    /\ log' = <<>>
    /\ steps' = {}
    /\ store_evals' = 0
    /\ UNCHANGED <<tracks, albums, term, match_dict>>
    /\ UNCHANGED matchVars
    /\ UNCHANGED pending
    /\ UNCHANGED concVars
    /\ UNCHANGED store_fault
    /\ UNCHANGED pluginVars

NextSession == QuerySplit \/ QueryTerm \/ QueryAll \/ NewCall

SpecSession == InitSession /\ [][NextSession]_vars

----------------------------------------------------------------------------
(* query() on a session to which tracks were added (session.add) that are   *)
(* not flushed yet                                                          *)

InitFlush ==
    /\ \E ts \in SUBSET TrackPool, new \in SUBSET TrackPool :
          /\ ts \cap new = {}
          /\ tracks = ts
          /\ albums = {t.album_id : t \in ts} \cup {EmptyAlbum}
          /\ pending = new
    /\ store_fault = NoError
    /\ \E q \in QueryStrings(MaxSessionTerms), a \in BOOLEAN : Call(q, a)
    /\ prev = NoPrev
    /\ term = <<>>
    /\ match_dict = NotParsed
    /\ NoMatching
    /\ NoPlugin

SpecFlush == InitFlush /\ [][Next]_vars

----------------------------------------------------------------------------
(* query() on a database that may fail, time out or be interrupted while it *)
(* evaluates the query                                                      *)

StoreSignals == {"OperationalError", "TimeoutError", "KeyboardInterrupt"}

InitFault ==
    /\ \E ts \in SUBSET TrackPool :
          /\ tracks = ts
          /\ albums = {t.album_id : t \in ts} \cup {EmptyAlbum}
    /\ pending = {}
    /\ store_fault \in StoreSignals \cup {NoError}
    /\ \E q \in QueryStrings(MaxSessionTerms), a \in BOOLEAN : Call(q, a)
    /\ prev = NoPrev
    /\ term = <<>>
    /\ match_dict = NotParsed
    /\ NoMatching
    /\ NoPlugin

SpecFault == InitFault /\ [][Next]_vars

----------------------------------------------------------------------------
(* _parse_term() on its own, for every token over a small alphabet *)

InitParse ==
    /\ Library({})
    /\ query_str = <<>>
    /\ album_query = FALSE
    /\ pc = "idle"
    /\ terms = <<>>
    /\ idx = 1
    /\ library_query = <<>>
    /\ items = {}
    /\ raised = NoError
    /\ log = <<>>
    /\ steps = {}
    /\ store_evals = 0
    /\ prev = NoPrev
    /\ term \in Tokens
    /\ match_dict = NotParsed
    /\ NoMatching
    /\ NoPlugin

ParseTerm ==
    /\ pc = "idle"
    /\ match_dict = NotParsed
    /\ match_dict' = parse_term(term)
    /\ UNCHANGED <<tracks, albums, query_str, album_query, pc, terms, idx,
                   library_query, items, raised, log, steps, store_evals, prev, term>>
    /\ UNCHANGED matchVars
    /\ UNCHANGED pending
    /\ UNCHANGED concVars
    /\ UNCHANGED store_fault
    /\ UNCHANGED pluginVars

NextParse == ParseTerm

SpecParse == InitParse /\ [][NextParse]_vars

----------------------------------------------------------------------------
(* One filter on its own: the expression _create_expression() builds for a  *)
(* separator and a value, evaluated on one column value.                    *)

MaxValueLen == 3
MaxColLen == 2

LikeAlphabet == {"a", "B", "%", "_", "/"}
RegexAlphabet == {"a", "B", "^", "$", ".", "*"}
ColAlphabet == {"a", "A", "b", "%", "/"}

P_100pct == <<"1", "0", "0", "/", "%">>
V_100x == <<"1", "0", "0", "x">>

LikeValues == UNION {[1..k -> LikeAlphabet] : k \in 0..MaxValueLen} \cup {P_100pct}
RegexValues == UNION {[1..k -> RegexAlphabet] : k \in 0..MaxValueLen}
ColValues == UNION {[1..k -> ColAlphabet] : k \in 0..MaxColLen}
                \cup {Null, V_100pct, V_100x}

InitMatch ==
    /\ Library({})
    /\ query_str = <<>>
    /\ album_query = FALSE
    /\ pc = "idle"
    /\ terms = <<>>
    /\ idx = 1
    /\ library_query = <<>>
    /\ items = {}
    /\ raised = NoError
    /\ log = <<>>
    /\ steps = {}
    /\ store_evals = 0
    /\ prev = NoPrev
    /\ term = <<>>
    /\ match_dict = NotParsed
    /\ \/ match_sep = ":" /\ match_value \in LikeValues
       \/ match_sep = "::" /\ match_value \in RegexValues
    /\ match_col \in ColValues
    /\ matched = NotEvaluated
    /\ calls = <<>>
    /\ shared_log = <<>>
    /\ NoPlugin

\* query.py:187-189: attr.ilike(value, escape="/") on one column value
EvalLike ==
    /\ matched = NotEvaluated
    /\ match_sep = ":"
    /\ matched' = [evaluated |-> TRUE, result |-> ilike(match_col, match_value)]
    /\ UNCHANGED <<tracks, albums, query_str, album_query, pc, terms, idx,
                   library_query, items, raised, log, steps, store_evals, prev, term,
                   match_dict, match_sep, match_value, match_col>>
    /\ UNCHANGED pending
    /\ UNCHANGED concVars
    /\ UNCHANGED store_fault
    /\ UNCHANGED pluginVars

\* query.py:191-199: attr.op("regexp")(value) on one column value, for a
\* value that re.compile() accepted
EvalRegexp ==
    /\ matched = NotEvaluated
    /\ match_sep = "::"
    /\ re_compile(match_value)
    /\ matched' = [evaluated |-> TRUE, result |-> regexp(match_value, match_col)]
    /\ UNCHANGED <<tracks, albums, query_str, album_query, pc, terms, idx,
                   library_query, items, raised, log, steps, store_evals, prev, term,
                   match_dict, match_sep, match_value, match_col>>
    /\ UNCHANGED pending
    /\ UNCHANGED concVars
    /\ UNCHANGED store_fault
    /\ UNCHANGED pluginVars

NextMatch == EvalLike \/ EvalRegexp

SpecMatch == InitMatch /\ [][NextMatch]_vars

----------------------------------------------------------------------------
(* Several query() invocations side by side on one library.  Each has its   *)
(* own frame (query_str, album_query, terms, library_query, items); the     *)
(* library and the module logger are what they have in common.  A step is   *)
(* one of the steps of query(): the split, one pass of the loop, .all().    *)

MaxInvocations == 2

Q_two_terms == W_quoted \o <<SP>> \o W_title_a
Q_fails_second == W_title_a \o <<SP>> \o W_bogus

ConcQueries == {Q_two_terms, W_regex, Q_fails_second, W_unterminated, <<SP>>}

\* the frame of an invocation that has not made a step
Frame(q, a) ==
    [query_str |-> q, album_query |-> a, pc |-> "start", terms |-> <<>>, idx |-> 1,
     library_query |-> <<>>, items |-> {}, raised |-> NoError, error |-> NoError]

\* lines 92-101 on a frame
split_step(c) ==
    LET split == shlex_split(c.query_str)
    IN  IF split.error # NoError
        THEN [c EXCEPT !.raised = split.error, !.pc = "done"]
        ELSE IF split.tokens = <<>>
        THEN [c EXCEPT !.error = EmptyQuery, !.pc = "done"]
        ELSE [c EXCEPT !.terms = split.tokens, !.pc = "loop"]

\* lines 103-108 on a frame: one pass of the for loop
term_step(c) ==
    LET expr == LoopBody(c.terms[c.idx])
    IN  IF expr.error # NoError
        THEN [c EXCEPT !.error = expr.error, !.pc = "done"]
        ELSE [c EXCEPT !.library_query = filter(c.library_query, expr),
                       !.idx = c.idx + 1]

\* .all() with the filters kept in one place for all the invocations: the
\* query is evaluated with the filters every invocation has added so far
all_step_shared(c, rows) ==
    LET every == [n \in DOMAIN calls |-> calls[n].library_query]
        joined == IF Len(every) = 0 THEN <<>>
                  ELSE IF Len(every) = 1 THEN every[1]
                  ELSE IF Len(every) = 2 THEN every[1] \o every[2]
                  ELSE every[1] \o every[2] \o every[3]
    IN  [c EXCEPT !.items = all(joined, rows, c.album_query), !.pc = "done"]

\* lines 110-115 on a frame
all_step(c, rows) ==
    [c EXCEPT !.items = all(c.library_query, rows, c.album_query), !.pc = "done"]

\* the step a frame is at
step(c, rows) ==
    IF c.pc = "start" THEN split_step(c)
    ELSE IF c.idx <= Len(c.terms) THEN term_step(c)
    ELSE all_step(c, rows)

\* what query() gives when nothing else runs: the steps one after the other
RECURSIVE run(_, _)
run(c, rows) == IF c.pc = "done" THEN c ELSE run(step(c, rows), rows)

\* what the caller gets from an invocation
Outcome(c) == [items |-> c.items, raised |-> c.raised, error |-> c.error]

InitConc ==
    /\ \E ts \in SUBSET TrackPool : Cardinality(ts) >= 2 /\ Library(ts)
    /\ query_str = <<>>
    /\ album_query = FALSE
    /\ pc = "idle"
    /\ terms = <<>>
    /\ idx = 1
    /\ library_query = <<>>
    /\ items = {}
    /\ raised = NoError
    /\ log = <<>>
    /\ steps = {}
    /\ store_evals = 0
    /\ prev = NoPrev
    /\ term = <<>>
    /\ match_dict = NotParsed
    /\ match_sep = ""
    /\ match_value = <<>>
    /\ match_col = <<>>
    /\ matched = NotEvaluated
    /\ calls \in [1..MaxInvocations ->
                    {Frame(q, a) : q \in ConcQueries, a \in BOOLEAN}]
    /\ shared_log = <<>>
    /\ NoPlugin

\* what a step of invocation i writes to the logger
Logged(i, before, after) ==
    IF after.error # before.error
    THEN <<[invocation |-> i, level |-> "error", msg |-> after.error]>>
    ELSE IF after.pc = "done" /\ after.raised = NoError /\ after.items = {}
    THEN <<[invocation |-> i, level |-> "warning", msg |-> "No items found"]>>
    ELSE <<>>

InvocationStep(i) ==
    /\ calls[i].pc # "done"
    /\ LET after == step(calls[i], tracks \cup pending)
       IN  /\ calls' = [calls EXCEPT ![i] = after]
           /\ shared_log' = shared_log \o Logged(i, calls[i], after)
           /\ IF calls[i].pc = "loop" /\ after.pc = "done" /\ after.error = NoError
              THEN autoflush
              ELSE UNCHANGED <<tracks, albums, pending>>
    /\ UNCHANGED <<query_str, album_query, pc, terms, idx, library_query, items,
                   raised, log, steps, store_evals, prev, term, match_dict>>
    /\ UNCHANGED matchVars
    /\ UNCHANGED store_fault
    /\ UNCHANGED pluginVars

NextConc == \E i \in 1..MaxInvocations : InvocationStep(i)

SpecConc == InitConc /\ [][NextConc]_vars

----------------------------------------------------------------------------
(* The info plugin: _fmt_infos(items) on the list query() returned.  An     *)
(* item is an object: the same number at two positions is the same object. *)
(* The string is kept as its pieces: the text of an item, or a line break.  *)

MaxItems == 4

\* no query() call is in progress and no filter is being evaluated
NoQuery ==
    /\ Library({})
    /\ query_str = <<>>
    /\ album_query = FALSE
    /\ pc = "idle"
    /\ terms = <<>>
    /\ idx = 1
    /\ library_query = <<>>
    /\ items = {}
    /\ raised = NoError
    /\ log = <<>>
    /\ steps = {}
    /\ store_evals = 0
    /\ prev = NoPrev
    /\ term = <<>>
    /\ match_dict = NotParsed
    /\ NoMatching

ItemObjects == {t.id : t \in TrackPool}

ItemLists == UNION {[1..k -> ItemObjects] : k \in 0..MaxItems}

\* _fmt_info(item) as one piece of the output
fmt_info(item) == [text |-> "info", item |-> item]

Newline == [text |-> NL, item |-> 0]

\* the loop of _fmt_infos from position n on
RECURSIVE fmt_from(_, _)
fmt_from(its, n) ==
    IF n > Len(its) THEN <<>>
    ELSE <<fmt_info(its[n])>>
            \o (IF its[n] # its[Len(its)] THEN <<Newline>> ELSE <<>>)
            \o fmt_from(its, n + 1)

\* info.py _fmt_infos(items)
fmt_infos(its) == fmt_from(its, 1)

InitInfo ==
    /\ NoQuery
    /\ info_items \in ItemLists
    /\ out_str = <<>>
    /\ info_pc = "call"
    /\ NoFlush
    /\ NoMove

FmtInfos ==
    /\ info_pc = "call"
    /\ out_str' = fmt_infos(info_items)
    /\ info_pc' = "returned"
    /\ UNCHANGED info_items
    /\ UNCHANGED queryVars
    /\ UNCHANGED flushVars
    /\ UNCHANGED moveVars

NextInfo == FmtInfos

SpecInfo == InitInfo /\ [][NextInfo]_vars

----------------------------------------------------------------------------
(* session.flush() on the session Config._init_db() put its listeners on:   *)
(* before_flush runs the edit_new_items hook, the new and changed items are *)
(* written, after_flush runs the process_new_items hook while the session   *)
(* still shows its state from before the flush, then new and dirty are      *)
(* emptied.  A flush of a session without new or changed items returns at   *)
(* once.  The hooks are those of the ConfigPlugin of the tests.             *)

MaxFlushes == 2

T_mock == "mock"
T_edited == "edited"
T_config == "config"

Event(what, its) == [flush |-> flushes, what |-> what, items |-> its]

InitHooks ==
    /\ NoQuery
    /\ NoInfo
    /\ sess_new = {}
    /\ sess_dirty = {}
    /\ item_title = [i \in ItemObjects |-> T_mock]
    /\ written = <<>>
    /\ flush_pc = "idle"
    /\ flushes = 0
    /\ events = <<>>
    /\ NoMove

\* session.add(item)
SessionAdd(i) ==
    /\ flush_pc = "idle"
    /\ i \notin sess_new
    /\ i \notin DOMAIN written
    /\ sess_new' = sess_new \cup {i}
    /\ UNCHANGED <<sess_dirty, item_title, written, flush_pc, flushes, events>>
    /\ UNCHANGED queryVars
    /\ UNCHANGED infoVars
    /\ UNCHANGED moveVars

\* a field of an item of the library is set
SessionEdit(i) ==
    /\ flush_pc = "idle"
    /\ i \in DOMAIN written
    /\ item_title[i] # T_edited
    /\ item_title' = [item_title EXCEPT ![i] = T_edited]
    /\ sess_dirty' = sess_dirty \cup {i}
    /\ UNCHANGED <<sess_new, written, flush_pc, flushes, events>>
    /\ UNCHANGED queryVars
    /\ UNCHANGED infoVars
    /\ UNCHANGED moveVars

\* session.flush() is called
FlushBegin ==
    /\ flush_pc = "idle"
    /\ flushes < MaxFlushes
    /\ flushes' = flushes + 1
    /\ events' = Append(events, [flush |-> flushes + 1, what |-> "flush",
                                 items |-> sess_new \cup sess_dirty])
    /\ flush_pc' = IF sess_new \cup sess_dirty = {} THEN "idle" ELSE "before_flush"
    /\ UNCHANGED <<sess_new, sess_dirty, item_title, written>>
    /\ UNCHANGED queryVars
    /\ UNCHANGED infoVars
    /\ UNCHANGED moveVars

\* config.py:363-383 _edit_new_items, with ConfigPlugin.edit_new_items
BeforeFlush ==
    /\ flush_pc = "before_flush"
    /\ LET its == sess_new \cup sess_dirty
       IN  /\ events' = Append(events, Event("edit_new_items", its))
           /\ item_title' = [i \in DOMAIN item_title |->
                                IF i \in its THEN T_config ELSE item_title[i]]
    /\ flush_pc' = "write"
    /\ UNCHANGED <<sess_new, sess_dirty, written, flushes>>
    /\ UNCHANGED queryVars
    /\ UNCHANGED infoVars
    /\ UNCHANGED moveVars

\* the flush writes the new and the changed items
FlushWrite ==
    /\ flush_pc = "write"
    /\ LET its == sess_new \cup sess_dirty
       IN  /\ events' = Append(events, Event("write", its))
           /\ written' = [i \in DOMAIN written \cup its |->
                             IF i \in its THEN item_title[i] ELSE written[i]]
    /\ flush_pc' = "after_flush"
    /\ UNCHANGED <<sess_new, sess_dirty, item_title, flushes>>
    /\ UNCHANGED queryVars
    /\ UNCHANGED infoVars
    /\ UNCHANGED moveVars

\* _process_new_items run after the session has emptied new and dirty
AfterFlush_postexec ==
    /\ flush_pc = "after_flush"
    /\ events' = Append(events, Event("process_new_items", {}))
    /\ sess_new' = {}
    /\ sess_dirty' = {}
    /\ flush_pc' = "idle"
    /\ UNCHANGED <<item_title, written, flushes>>
    /\ UNCHANGED queryVars
    /\ UNCHANGED infoVars
    /\ UNCHANGED moveVars

\* config.py:386-404 _process_new_items; the flush ends
AfterFlush ==
    /\ flush_pc = "after_flush"
    /\ events' = Append(events, Event("process_new_items", sess_new \cup sess_dirty))
    /\ sess_new' = {}
    /\ sess_dirty' = {}
    /\ flush_pc' = "idle"
    /\ UNCHANGED <<item_title, written, flushes>>
    /\ UNCHANGED queryVars
    /\ UNCHANGED infoVars
    /\ UNCHANGED moveVars

NextHooks ==
    \/ \E i \in ItemObjects : SessionAdd(i)
    \/ \E i \in ItemObjects : SessionEdit(i)
    \/ FlushBegin
    \/ BeforeFlush
    \/ FlushWrite
    \/ AfterFlush

SpecHooks == InitHooks /\ [][NextHooks]_vars

-----------------------------------------------------------------------------
(* The move command: _parse_args() asks for every album, and either goes   *)
(* through _dry_run() or calls move_item() on each album.  A path is a     *)
(* directory, or a directory and a file name.  fmt_item_path() gives an    *)
(* album the directory the configuration asks for, and a track or extra a  *)
(* file inside the directory its album object has at that moment.          *)

D_unsorted == "unsorted/album"
D_formatted == "Music/Artist/Album (2020)"
N_raw == "track.mp3"
N_formatted == "01 - Title.mp3"
N_cover == "cover.jpg"

Dirs == {D_unsorted, D_formatted}
TrackNames == {N_raw, N_formatted}

\* the albums of the track pool, the tracks of an album, its one extra
AlbumPool == {t.album_id : t \in TrackPool}
TracksOf(as) == {t.id : t \in {u \in TrackPool : u.album_id \in as}}
AlbumOf(i) == (CHOOSE t \in TrackPool : t.id = i).album_id

\* moe_move.fmt_item_path(config, album)
fmt_album_path(a) == D_formatted

\* moe_move.fmt_item_path(config, track): inside the album's present path
fmt_track_path(i, apath) == [dir |-> apath[AlbumOf(i)], file |-> N_formatted]

\* moe_move.fmt_item_path(config, extra): inside the album's present path
fmt_extra_path(a, apath) == [dir |-> apath[a], file |-> N_cover]

\* the lines "\n{path}\n\t-> {dest}" for the items whose dest differs
Line(from, to) == [path |-> from, dest |-> to]

\* the albums in the order of the query
RECURSIVE InOrder(_)
InOrder(as) ==
    IF as = {} THEN <<>>
    ELSE LET a == CHOOSE x \in as : \A y \in as : x <= y
         IN  <<a>> \o InOrder(as \ {a})

RECURSIVE LinesOf(_, _)
LinesOf(pairs, order) ==
    IF order = <<>> THEN <<>>
    ELSE (IF pairs[Head(order)].path # pairs[Head(order)].dest
          THEN <<pairs[Head(order)]>> ELSE <<>>) \o LinesOf(pairs, Tail(order))

\* a library whose items lie where their album lies, and a command line
InitMove ==
    /\ NoQuery
    /\ NoInfo
    /\ NoFlush
    /\ dry_run \in BOOLEAN
    /\ move_pc = "start"
    /\ move_todo = <<>>
    /\ \E as \in SUBSET AlbumPool :
        /\ album_path \in [as -> Dirs]
        /\ track_path \in [TracksOf(as) -> [dir : Dirs, file : TrackNames]]
        /\ \A i \in TracksOf(as) : track_path[i].dir = album_path[AlbumOf(i)]
        /\ extra_path = [a \in as |-> [dir |-> album_path[a], file |-> N_cover]]
    /\ album_row = album_path
    /\ path_before = [album |-> album_path, track |-> track_path, extra |-> extra_path]
    /\ moved = {}
    /\ dry_run_str = <<>>

\* _parse_args(): query("*", query_type="album"); no albums is SystemExit(1)
MoveParseArgs ==
    /\ move_pc = "start"
    /\ LET found == InOrder(DOMAIN album_path)
       IN  /\ move_todo' = found
           /\ move_pc' = IF found = <<>> THEN "exit"
                         ELSE IF dry_run THEN "dry_run" ELSE "move"
    /\ UNCHANGED <<dry_run, album_path, album_row, track_path, extra_path,
                   path_before, moved, dry_run_str>>
    /\ UNCHANGED queryVars
    /\ UNCHANGED infoVars
    /\ UNCHANGED flushVars

\* _dry_run(): one pass of the loop over the albums
DryRunAlbum ==
    /\ move_pc = "dry_run"
    /\ move_todo # <<>>
    /\ LET dry_album == Head(move_todo)
           album_dest == fmt_album_path(dry_album)
           \* sqlalchemy.orm.attributes.set_committed_value(dry_album, "path", ..)
           set_path == [album_path EXCEPT ![dry_album] = album_dest]
           ts == InOrder(TracksOf({dry_album}))
           tlines == [i \in TracksOf({dry_album}) |->
                        Line(track_path[i], fmt_track_path(i, set_path))]
           eline == Line(extra_path[dry_album], fmt_extra_path(dry_album, set_path))
       IN  /\ dry_run_str' = dry_run_str
                \o (IF album_dest # album_path[dry_album]
                    THEN <<Line(album_path[dry_album], album_dest)>> ELSE <<>>)
                \o LinesOf(tlines, ts)
                \o (IF eline.path # eline.dest THEN <<eline>> ELSE <<>>)
           /\ album_path' = set_path
    /\ move_todo' = Tail(move_todo)
    /\ UNCHANGED <<dry_run, move_pc, album_row, track_path, extra_path,
                   path_before, moved>>
    /\ UNCHANGED queryVars
    /\ UNCHANGED infoVars
    /\ UNCHANGED flushVars

\* _parse_args(): _dry_run() has returned; print(dry_run_str.lstrip())
DryRunPrint ==
    /\ move_pc = "dry_run"
    /\ move_todo = <<>>
    /\ move_pc' = "done"
    /\ UNCHANGED <<dry_run, move_todo, album_path, album_row, track_path,
                   extra_path, path_before, moved, dry_run_str>>
    /\ UNCHANGED queryVars
    /\ UNCHANGED infoVars
    /\ UNCHANGED flushVars

\* _parse_args(): moe_move.move_item(config, album) for the next album
MoveItem ==
    /\ move_pc = "move"
    /\ move_todo # <<>>
    /\ LET album == Head(move_todo)
           new_path == [album_path EXCEPT ![album] = fmt_album_path(album)]
       IN  /\ moved' = moved \cup {album}
           /\ album_path' = new_path
           /\ album_row' = [album_row EXCEPT ![album] = fmt_album_path(album)]
           /\ track_path' = [i \in DOMAIN track_path |->
                               IF AlbumOf(i) = album
                               THEN fmt_track_path(i, new_path) ELSE track_path[i]]
           /\ extra_path' = [extra_path EXCEPT ![album] = fmt_extra_path(album, new_path)]
    /\ move_todo' = Tail(move_todo)
    /\ UNCHANGED <<dry_run, move_pc, path_before, dry_run_str>>
    /\ UNCHANGED queryVars
    /\ UNCHANGED infoVars
    /\ UNCHANGED flushVars

\* _parse_args(): the loop over the albums has ended
MoveDone ==
    /\ move_pc = "move"
    /\ move_todo = <<>>
    /\ move_pc' = "done"
    /\ UNCHANGED <<dry_run, move_todo, album_path, album_row, track_path,
                   extra_path, path_before, moved, dry_run_str>>
    /\ UNCHANGED queryVars
    /\ UNCHANGED infoVars
    /\ UNCHANGED flushVars

NextMove ==
    \/ MoveParseArgs
    \/ DryRunAlbum
    \/ DryRunPrint
    \/ MoveItem
    \/ MoveDone

SpecMove == InitMove /\ [][NextMove]_vars

----------------------------------------------------------------------------
(* Properties *)

\* whether the query string could be split into terms
SplitOk == pc # "start" /\ raised = NoError

\* the positions of the terms that fail to parse, resolve or compile
Failing == {n \in DOMAIN terms : LoopBody(terms[n]).error # NoError}

\* a query string that splits into at least one term, all of them valid
WellFormed == SplitOk /\ terms # <<>> /\ Failing = {}

\* the joined rows on which the predicates of all the terms hold
RowsMatchingAll ==
    {t \in tracks : \A n \in DOMAIN terms : Holds(LoopBody(terms[n]), t)}

\* C1: a well-formed query with terms t1..tn returns exactly the records of
\* the queried kind for which all n predicates hold (for an album query: the
\* albums of the joined rows on which all n hold); one filter per term
\* reaches the session, none dropped and none added.
C1_ConjunctionExact ==
    (pc = "done" /\ WellFormed) =>
        /\ raised = NoError
        /\ Error = NoError
        /\ store_evals = 1
        /\ Len(library_query) = Len(terms)
        /\ \A n \in DOMAIN terms : library_query[n] = LoopBody(terms[n])
        /\ items = IF album_query THEN {t.album_id : t \in RowsMatchingAll}
                   ELSE {t.id : t \in RowsMatchingAll}

C1_Witness ==
    /\ pc = "done"
    /\ WellFormed
    /\ Len(terms) >= 2
    /\ ~album_query
    /\ items # {}
    /\ items # {t.id : t \in tracks}

Q_C2_AsClaimed == W_artist_wutang \o <<SP>> \o W_title_a
Q_C2_HelpStr == W_quoted \o <<SP>> \o W_title_a

\* C2 as claimed: "artist:wu-tang title:a%" on the library of the two
\* Wu-Tang Clan tracks "Adventure" and "Bravo" returns exactly the first.
C2_AsClaimed ==
    (pc = "done" /\ query_str = Q_C2_AsClaimed /\ ~album_query
        /\ tracks = {Track1, Track2}) => items = {Track1.id}

\* C2 amended: on that library the query '"artist:wu-tang clan" title:a%',
\* whose artist term names the whole artist value, returns exactly the first
\* track, and the query "artist:wu-tang title:a%" returns no track.
C2_WholeValue ==
    (pc = "done" /\ ~album_query /\ tracks = {Track1, Track2}) =>
        /\ query_str = Q_C2_HelpStr => items = {Track1.id}
        /\ query_str = Q_C2_AsClaimed => items = {}

C2_Witness ==
    /\ pc = "done"
    /\ query_str = Q_C2_HelpStr
    /\ ~album_query
    /\ tracks = {Track1, Track2}
    /\ items = {Track1.id}
    /\ store_evals = 1

Blank(s) == \A i \in DOMAIN s : IsSpace(s[i])

\* C3: an empty or whitespace-only query string ends in the EmptyQuery
\* error, and the session never evaluates a query for it.
C3_EmptyQuery ==
    Blank(query_str) =>
        /\ store_evals = 0
        /\ pc = "done" => (Error = EmptyQuery /\ raised = NoError /\ items = {})

C3_Witness ==
    /\ pc = "done"
    /\ query_str # <<>>
    /\ Blank(query_str)
    /\ Error = EmptyQuery

\* C4: what query() returns for a well-formed query without matches is never
\* what it returns for a query that fails (two calls on one session, either
\* order).
C4_Distinguishable ==
    (pc = "done" /\ prev.valid /\ raised = NoError /\ prev.raised = NoError
        /\ \/ prev.error = NoError /\ prev.items = {} /\ Error \in QueryErrors
           \/ Error = NoError /\ items = {} /\ prev.error \in QueryErrors)
    => items # prev.items

\* a token with the regex separator whose value does not compile
InvalidRegexAt(n) ==
    LET parsed == parse_term(terms[n])
    IN  /\ parsed.error = NoError
        /\ parsed.separator = "::"
        /\ ~re_compile(parsed.value)

\* a token whose field is not a queryable field
UnknownFieldAt(n) ==
    LET parsed == parse_term(terms[n])
    IN  /\ parsed.error = NoError
        /\ parsed.field \notin TrackFields

\* C5: a query with a regex term that does not compile fails and the session
\* never evaluates it, whatever valid terms come before; the error is
\* InvalidRegex when that term is the first one to fail and its field
\* resolves.
C5_InvalidRegex ==
    LET failing == Failing
    IN  \A n \in DOMAIN terms :
            (SplitOk /\ InvalidRegexAt(n)) =>
                /\ store_evals = 0
                /\ pc = "done" =>
                      /\ Error \in QueryErrors
                      /\ items = {}
                      /\ (~UnknownFieldAt(n) /\ \A m \in 1..(n - 1) : m \notin failing)
                            => Error = InvalidRegex

C5_Witness ==
    /\ pc = "done"
    /\ Len(terms) >= 2
    /\ InvalidRegexAt(2)
    /\ Len(library_query) = 1
    /\ Error = InvalidRegex

C7_FailFast ==
    LET failing == Failing
        k == Min(failing)
    IN  (SplitOk /\ failing # {}) =>
            /\ \A st \in steps : st[2] <= k
            /\ store_evals = 0
            /\ pc = "done" =>
                  /\ Error = LoopBody(terms[k]).error
                  /\ Len(log) = 1
                  /\ <<"parse", k>> \in steps

C7_Witness ==
    /\ pc = "done"
    /\ Cardinality(Failing) >= 2
    /\ Min(Failing) < Len(terms)
    /\ Error = LoopBody(terms[Min(Failing)]).error
    /\ \E n \in Failing : LoopBody(terms[n]).error # Error

\* the stage at which a token fails, from the grammar, the field registry
\* and the regular expression compiler
FailsAtParse(n) == terms[n] # <<"*">> /\ FieldLengths(terms[n]) = {}
FailsAtResolve(n) == UnknownFieldAt(n)
FailsAtCompile(n) == InvalidRegexAt(n) /\ ~UnknownFieldAt(n)

\* C8 as claimed: with one token that fails at the parse stage and another
\* that fails at the compile stage the error is the parse error, whatever
\* the positions of the two; a single term with an unknown field and an
\* invalid regex gives UnknownField.
C8_AsClaimed ==
    (pc = "done" /\ SplitOk) =>
        /\ (\E n, m \in DOMAIN terms : FailsAtParse(n) /\ FailsAtCompile(m))
              => Error = MalformedTerm
        /\ (Len(terms) = 1 /\ UnknownFieldAt(1) /\ InvalidRegexAt(1))
              => Error = UnknownField

\* C8 amended: the stage order parse, resolve, compile holds within one
\* term: the leftmost failing token gives MalformedTerm if it fails to
\* parse, else UnknownField if its field is unknown (also when its regex is
\* invalid), else InvalidRegex, and only the stages up to the failing one are
\* run on it.  Across tokens the leftmost failing token decides, whatever
\* its stage.
C8_StageOrderWithinTerm ==
    LET failing == Failing
        k == Min(failing)
    IN  (pc = "done" /\ SplitOk /\ failing # {}) =>
            /\ FailsAtParse(k) =>
                  (Error = MalformedTerm /\ <<"resolve", k>> \notin steps)
            /\ FailsAtResolve(k) =>
                  (Error = UnknownField /\ <<"resolve", k>> \in steps
                     /\ <<"compile", k>> \notin steps)
            /\ FailsAtCompile(k) =>
                  (Error = InvalidRegex /\ <<"compile", k>> \in steps)
            /\ FailsAtParse(k) \/ FailsAtResolve(k) \/ FailsAtCompile(k)

C8_Witness ==
    /\ pc = "done"
    /\ Len(terms) = 2
    /\ FailsAtCompile(1)
    /\ FailsAtParse(2)
    /\ Error = InvalidRegex

\* f:v or f::v read at field length k: f non-empty without colon or
\* whitespace, v non-empty and not beginning with whitespace or a colon
FieldPart(t, k) == SubSeq(t, 1, k)
ValuePart(t, k, sep) == SubSeq(t, k + (IF sep = "::" THEN 2 ELSE 1) + 1, Len(t))

IsFieldSepValue(t, k, sep) ==
    /\ k >= 1
    /\ \A j \in 1..k : t[j] # ":" /\ ~IsSpace(t[j])
    /\ k + 1 <= Len(t) /\ t[k + 1] = ":"
    /\ sep = "::" => (k + 2 <= Len(t) /\ t[k + 2] = ":")
    /\ ValuePart(t, k, sep) # <<>>
    /\ ValuePart(t, k, sep)[1] # ":"
    /\ ~IsSpace(ValuePart(t, k, sep)[1])

\* C9: a token f:v parses to field lower(f), separator ":", value v, and a
\* token f::v to field lower(f), separator "::", value v.
C9_ParseFieldSepValue ==
    match_dict # NotParsed =>
        \A k \in 1..Len(term), sep \in {":", "::"} :
            IsFieldSepValue(term, k, sep) =>
                match_dict = [error |-> NoError,
                              field |-> Lower(FieldPart(term, k)),
                              separator |-> sep,
                              value |-> ValuePart(term, k, sep)]

\* a token f: or f:: with f non-empty and without colon
EndsWithSeparator(t) ==
    \E k \in 1..Len(t) :
        /\ \A j \in 1..k : t[j] # ":"
        /\ Len(t) \in {k + 1, k + 2}
        /\ \A j \in (k + 1)..Len(t) : t[j] = ":"

\* a token f:v or f::v whose v begins with whitespace
ValueBeginsWithSpace(t) ==
    \E k \in 1..Len(t), sep \in {":", "::"} :
        /\ \A j \in 1..k : t[j] # ":"
        /\ k + 1 <= Len(t) /\ t[k + 1] = ":"
        /\ sep = "::" => (k + 2 <= Len(t) /\ t[k + 2] = ":")
        /\ ValuePart(t, k, sep) # <<>>
        /\ IsSpace(ValuePart(t, k, sep)[1])

\* C10: every token other than "*" without a separator, with nothing after
\* the separator, or with a value that begins with whitespace, is a
\* MalformedTerm.
C10_Malformed ==
    (match_dict # NotParsed /\ term # <<"*">>
        /\ \/ \A j \in DOMAIN term : term[j] # ":"
           \/ EndsWithSeparator(term)
           \/ ValueBeginsWithSpace(term))
    => match_dict.error = MalformedTerm

\* C11: the query "*" returns every record of the queried kind that is in
\* the store: every track for a track query, every album for an album query,
\* also an album without tracks and a track without a track number.
C11_StarReturnsAll ==
    (pc = "done" /\ query_str = W_star) =>
        /\ raised = NoError
        /\ Error = NoError
        /\ items = IF album_query THEN albums ELSE {t.id : t \in tracks}

\* the term at position n names a field that only tracks have
TrackOnlyFieldAt(n) ==
    LET parsed == parse_term(terms[n])
    IN  /\ parsed.error = NoError
        /\ parsed.field \in TrackOnlyFields

\* C12 as claimed: an album query whose first term names a field that only
\* tracks have (track_num) fails with UnknownField.
C12_AsClaimed ==
    (pc = "done" /\ SplitOk /\ album_query /\ terms # <<>> /\ terms[1] # W_star
        /\ TrackOnlyFieldAt(1))
        => Error = UnknownField

\* C12 amended: field names are resolved in the track registry for track and
\* album queries alike: the query ends in UnknownField exactly when the
\* field of its leftmost failing term is not a queryable Track field, and
\* the album query "track_num:1" is evaluated and returns the albums that
\* have a track with track number 1.
C12_TrackRegistry ==
    LET failing == Failing
    IN  (pc = "done" /\ SplitOk /\ terms # <<>>) =>
            /\ Error = UnknownField <=>
                  (failing # {} /\ UnknownFieldAt(Min(failing)))
            /\ \A n \in DOMAIN library_query : library_query[n].field \in TrackFields
            /\ (album_query /\ query_str = W_track_num_1) =>
                  /\ Error = NoError
                  /\ store_evals = 1
                  /\ items = {t.album_id : t \in {u \in tracks : u.track_num = <<"1">>}}

C12_Witness ==
    /\ pc = "done"
    /\ album_query
    /\ query_str = W_track_num_1
    /\ Track1 \in tracks
    /\ items = {Track1.album_id}
    /\ Error = NoError

\* C13: LIKE matching does not depend on case: a value p matches a column
\* value s exactly when lower(p) matches upper(s).
C13_LikeCaseInsensitive ==
    (match_sep = ":" /\ matched.evaluated) =>
        matched.result = ilike(Upper(match_col), Lower(match_value))

C13_Witness ==
    /\ match_sep = ":"
    /\ matched.evaluated
    /\ matched.result
    /\ Upper(match_col) # match_col
    /\ Lower(match_value) # match_value
    /\ \E i \in DOMAIN match_value : match_value[i] \in {"%", "_"}

\* the wildcard match as described: "%" any run of characters, "_" exactly
\* one character, "/" before "%", "_" or "/" makes that character literal,
\* every other character stands for itself; the whole string is matched
RECURSIVE WildcardMatch(_, _, _, _)
WildcardMatch(p, i, s, j) ==
    IF i > Len(p) THEN j > Len(s)
    ELSE IF p[i] = "%"
         THEN WildcardMatch(p, i + 1, s, j)
                \/ (j <= Len(s) /\ WildcardMatch(p, i, s, j + 1))
    ELSE IF p[i] = "_"
         THEN j <= Len(s) /\ WildcardMatch(p, i + 1, s, j + 1)
    ELSE IF p[i] = "/" /\ i + 1 <= Len(p) /\ p[i + 1] \in {"%", "_", "/"}
         THEN /\ j <= Len(s)
              /\ s[j] = p[i + 1]
              /\ WildcardMatch(p, i + 2, s, j + 1)
    ELSE /\ j <= Len(s)
         /\ s[j] = p[i]
         /\ WildcardMatch(p, i + 1, s, j + 1)

\* C14: a LIKE value matches a column value exactly when it matches the
\* whole of it as that wildcard pattern (case aside); so "100/%" matches
\* "100%" and does not match "100x".
C14_LikeWildcard ==
    (match_sep = ":" /\ matched.evaluated /\ match_col # Null) =>
        /\ matched.result =
              WildcardMatch(Lower(match_value), 1, Lower(match_col), 1)
        /\ match_value = P_100pct => (matched.result <=> match_col = V_100pct)

\* a regular expression without special characters
Literal(p) == \A i \in DOMAIN p : LowerChar(p[i]) # UpperChar(p[i])

\* p is found in s at some position
Occurs(p, s) ==
    \E j \in 0..(Len(s) - Len(p)) : SubSeq(s, j + 1, j + Len(p)) = p

\* C15: a regular expression holds on a column value exactly when it is
\* found somewhere in the string form of the value, case aside: the result
\* does not change with the case of pattern and value, a pattern of plain
\* letters holds exactly when it occurs in the value, at any position, and
\* with "^" before it exactly when the value begins with it.
C15_RegexSearch ==
    (match_sep = "::" /\ matched.evaluated) =>
        LET s == Str(match_col)
            p == match_value
        IN  /\ matched.result = regexp(Upper(p), Lower(s))
            /\ Literal(p) => (matched.result <=> Occurs(Lower(p), Lower(s)))
            /\ (p # <<>> /\ p[1] = "^" /\ Literal(Tail(p))) =>
                  (matched.result <=>
                      /\ Len(s) >= Len(p) - 1
                      /\ SubSeq(Lower(s), 1, Len(p) - 1) = Lower(Tail(p)))

C15_Witness ==
    /\ match_sep = "::"
    /\ matched.evaluated
    /\ matched.result
    /\ Literal(match_value)
    /\ match_value # <<>>
    /\ match_col # Null
    /\ ~Occurs(match_value, match_col)
    /\ Len(match_col) > Len(match_value)
    /\ SubSeq(Lower(match_col), 1, Len(match_value)) # Lower(match_value)

\* the tokenizer as described: whitespace outside quotes ends a token, a
\* quote character opens or closes a quotation and is dropped, every other
\* character, the backslash too, goes into the token as it is
plain_read(lex, nextchar) ==
    IF lex.state \in {SP, "a"}
    THEN IF IsSpace(nextchar)
         THEN [shlex_start EXCEPT !.out = shlex_emit(lex)]
         ELSE IF nextchar \in {DQ, SQ}
         THEN [lex EXCEPT !.state = nextchar]
         ELSE [lex EXCEPT !.state = "a", !.token = Append(lex.token, nextchar)]
    ELSE IF nextchar = lex.state
         THEN [lex EXCEPT !.state = "a", !.quoted = TRUE]
         ELSE [lex EXCEPT !.token = Append(lex.token, nextchar), !.quoted = TRUE]

RECURSIVE plain_run(_, _, _, _)
plain_run(lex, s, lo, hi) ==
    IF lo > hi THEN lex
    ELSE IF lo = hi THEN plain_read(lex, s[lo])
    ELSE LET mid == (lo + hi) \div 2
             half == plain_run(lex, s, lo, mid)
         IN  IF half.state = "" THEN half ELSE plain_run(half, s, mid + 1, hi)

PlainTokens(s) == shlex_emit(plain_run(shlex_start, s, 1, Len(s)))

\* C16: the terms of a query string that can be split are its pieces between
\* whitespace outside quotes, with the quote characters removed and every
\* other character, the backslash too, unchanged.
C16_TokenizePlain ==
    SplitOk => terms = PlainTokens(query_str)

C18_StoreUnchanged ==
    [][tracks' = tracks /\ albums' = albums]_vars

C20_SignalPropagated ==
    (pc = "done" /\ store_evals > 0 /\ store_fault # NoError) =>
        /\ raised = store_fault
        /\ Error = NoError
        /\ log = <<>>
        /\ items = {}

C20_Witness ==
    /\ pc = "done"
    /\ store_evals = 1
    /\ store_fault = "TimeoutError"
    /\ raised = "TimeoutError"
    /\ library_query # <<>>

\* the n items in list order, a line break after each but the last
RECURSIVE Separated(_, _)
Separated(its, n) ==
    IF n > Len(its) THEN <<>>
    ELSE <<fmt_info(its[n])>>
            \o (IF n < Len(its) THEN <<Newline>> ELSE <<>>)
            \o Separated(its, n + 1)

\* C21: for a list of n >= 1 items _fmt_infos gives the n formatted items in
\* list order with a line break after every item but the one in the last
\* position: n - 1 line breaks, also when an item occurs more than once.
C21_SeparatedByNewlines ==
    (info_pc = "returned" /\ info_items # <<>>) =>
        /\ out_str = Separated(info_items, 1)
        /\ Cardinality({n \in DOMAIN out_str : out_str[n] = Newline})
              = Len(info_items) - 1

\* what happened during flush number f, in order
EventsOf(f) ==
    LET of(e) == e.flush = f
    IN  SelectSeq(events, of)

FlushEnded(f) == f < flushes \/ (f = flushes /\ flush_pc = "idle")

\* the hook calls and the write of a flush that has ended: edit_new_items,
\* the write, process_new_items, once each and with the same items
HooksAroundWrite(ev) ==
    /\ Len(ev) = 4
    /\ ev[2].what = "edit_new_items"
    /\ ev[3].what = "write"
    /\ ev[4].what = "process_new_items"
    /\ \A n \in 2..4 : ev[n].items = ev[1].items

C23_DryRunKeepsPaths ==
    (dry_run /\ move_pc = "done") =>
        /\ moved = {}
        /\ album_path = path_before.album
        /\ track_path = path_before.track
        /\ extra_path = path_before.extra


\* the characters of a separator
SepChars(sep) == IF sep = "::" THEN <<":", ":">> ELSE <<":">>

\* field, separator and value one after the other give back the token t, up
\* to the letter case of the field
GivesBack(d, t) ==
    LET k == Len(d.field)
    IN  /\ k <= Len(t)
        /\ d.field = Lower(SubSeq(t, 1, k))
        /\ SepChars(d.separator) \o d.value = SubSeq(t, k + 1, Len(t))

\* C24: for every token other than "*" that _parse_term() accepts, the
\* field, the separator and the value one after the other give back the
\* token up to the letter case of the field, also when the value contains
\* colons or line breaks
C24_ValueIsRemainder ==
    (match_dict # NotParsed /\ term # <<"*">> /\ match_dict.error = NoError)
        => GivesBack(match_dict, term)


\* C25: query() returns a list for every query string and lets no exception
\* out: a query string that cannot be split into tokens, an unterminated
\* quote included, ends like a malformed term, with an error logged and the
\* empty list returned
C25_NoExceptionEscapes ==
    pc = "done" =>
        /\ raised = NoError
        /\ shlex_split(query_str).error # NoError =>
              (Error \in QueryErrors /\ items = {})


\* the position of the first colon of a token that has one
FirstColon(t) == Min({j \in DOMAIN t : t[j] = ":"})

\* C26: for every accepted token that does not begin with a colon, the field
\* is the lower-cased prefix before the first colon of the token, the
\* separator is "::" exactly when that colon is followed at once by a second
\* colon and at least one more character, and with three or more colons in a
\* row the third colon begins the value
C26_FieldAndSeparator ==
    (match_dict # NotParsed /\ term # <<"*">> /\ match_dict.error = NoError
        /\ term[1] # ":")
    => LET c == FirstColon(term)
       IN  /\ match_dict.field = Lower(SubSeq(term, 1, c - 1))
           /\ match_dict.separator = "::"
                <=> (c + 2 <= Len(term) /\ term[c + 1] = ":")
           /\ (c + 2 <= Len(term) /\ term[c + 1] = ":" /\ term[c + 2] = ":")
                => match_dict.value[1] = ":"


\* C27: on every column value the regular expression ".*" gives what the
\* pattern "%" gives, and a column without a value (NULL) is matched by no
\* pattern and by no regular expression
C27_RegexAllIsLikeAll ==
    matched.evaluated =>
        /\ (match_sep = "::" /\ match_value = <<".", "*">>)
              => matched.result = ilike(match_col, <<"%">>)
        /\ match_col = Null => ~matched.result

====
